---- MODULE Spec2Model ----
(***************************************************************************)
(* Request pipeline of the healthcare portal backend: the user router      *)
(* (server/routes/userRoutes.js) behind the protect / authorize gates, and *)
(* the validate(rules) middleware with the four declared rule sets         *)
(* (server/middlewares/validator.js).                                      *)
(*                                                                         *)
(* A string is a sequence of one-character strings.  A body field is a     *)
(* record [present, val]; an absent field (undefined) has val = <<>>,      *)
(* which is what the validators see after toString(undefined).             *)
(***************************************************************************)
EXTENDS Integers, Sequences, FiniteSets, TLC

\* ------------------------------------------------------------------------
\* Bounds of the model
\* ------------------------------------------------------------------------
\* largest number of whitespace characters put in front of / behind a text
MaxPad == 1
\* longest free-form password core enumerated over PwAlphabet
MaxCore == 4

\* ------------------------------------------------------------------------
\* Characters and strings
\* ------------------------------------------------------------------------
Digit == {"0", "1", "2", "3", "4", "5", "6", "7", "8", "9"}
LowerSeq == <<"a", "b", "c", "d", "e", "f", "g", "h", "i", "j", "k", "l", "m",
              "n", "o", "p", "q", "r", "s", "t", "u", "v", "w", "x", "y", "z">>
UpperSeq == <<"A", "B", "C", "D", "E", "F", "G", "H", "I", "J", "K", "L", "M",
              "N", "O", "P", "Q", "R", "S", "T", "U", "V", "W", "X", "Y", "Z">>
Lower == {LowerSeq[i] : i \in 1..Len(LowerSeq)}
Upper == {UpperSeq[i] : i \in 1..Len(UpperSeq)}
Space == {" ", "\t", "\n"}
LineTerminator == {"\n"}
Punct == {"-", "+", "(", ")", ".", "@", ":", "!", "_"}
Char == Digit \cup Lower \cup Upper \cup Space \cup Punct
WordChar == Digit \cup Lower \cup Upper \cup {"_"}

Rep(c, n) == [i \in 1..n |-> c]

Min(S) == CHOOSE x \in S : \A y \in S : x <= y
Max(S) == CHOOSE x \in S : \A y \in S : x >= y

\* String.prototype.trim as used by the trim() sanitizer: strips leading and
\* trailing whitespace (line terminators included), keeps interior whitespace.
Trim(s) ==
    LET keep == {i \in 1..Len(s) : s[i] \notin Space}
    IN  IF keep = {} THEN <<>> ELSE SubSeq(s, Min(keep), Max(keep))

\* ------------------------------------------------------------------------
\* Regular expressions.  A regex is a record:
\*   [t |-> "cls", set, lo, hi, star]  between lo and hi characters of set
\*                                     (no upper limit when star)
\*   [t |-> "seq", parts]        concatenation
\*   [t |-> "alt", parts]        alternation
\* Ends(r, s, P) is the set of positions (number of characters consumed)
\* at which a match of r that starts at some position of P can end.
\* ------------------------------------------------------------------------
Cls(S, lo, hi) == [t |-> "cls", set |-> S, lo |-> lo, hi |-> hi, star |-> FALSE]
AtLeast(S, lo) == [t |-> "cls", set |-> S, lo |-> lo, hi |-> lo, star |-> TRUE]
One(S) == Cls(S, 1, 1)
Opt(S) == Cls(S, 0, 1)
Cat(parts) == [t |-> "seq", parts |-> parts]
Alt(parts) == [t |-> "alt", parts |-> parts]
Lit(s) == Cat([i \in 1..Len(s) |-> One({s[i]})])

ClsEnds(r, s, P) ==
    {q \in 0..Len(s) :
        \E p \in P :
            /\ p <= q
            /\ q - p >= r.lo
            /\ (r.star \/ q - p <= r.hi)
            /\ \A i \in (p + 1)..q : s[i] \in r.set}

RECURSIVE Ends(_, _, _)
RECURSIVE SeqEnds(_, _, _, _)
SeqEnds(parts, k, s, P) ==
    IF k > Len(parts) \/ P = {} THEN P
    ELSE SeqEnds(parts, k + 1, s, Ends(parts[k], s, P))
Ends(r, s, P) ==
    CASE r.t = "cls" -> ClsEnds(r, s, P)
      [] r.t = "seq" -> SeqEnds(r.parts, 1, s, P)
      [] r.t = "alt" -> UNION {Ends(r.parts[k], s, P) : k \in 1..Len(r.parts)}

\* /^r$/.test(s)
FullMatch(r, s) == Len(s) \in Ends(r, s, {0})
\* /^r/.test(s)
PrefixMatch(r, s) == Ends(r, s, {0}) # {}


\* String.prototype.toLowerCase on the characters of the model's alphabet
ToLowerCase(s) ==
    [i \in 1..Len(s) |->
        IF s[i] \in Upper
        THEN LowerSeq[CHOOSE k \in 1..Len(UpperSeq) : UpperSeq[k] = s[i]]
        ELSE s[i]]

\* String.prototype.split(c): the pieces of s between the occurrences of c
RECURSIVE Split(_, _)
Split(s, c) ==
    LET at == {i \in 1..Len(s) : s[i] = c}
    IN  IF at = {} THEN <<s>>
        ELSE <<SubSeq(s, 1, Min(at) - 1)>> \o Split(SubSeq(s, Min(at) + 1, Len(s)), c)

\* ------------------------------------------------------------------------
\* The validators and sanitizers the rule sets use (express-validator's
\* standard validators, applied to the stringified field value)
\* ------------------------------------------------------------------------
\* notEmpty(): the string has at least one character (whitespace counts)
NotEmpty(s) == Len(s) > 0

\* isLength({min, max}); hasMax is FALSE when max is not given
IsLength(s, min, hasMax, max) == Len(s) >= min /\ (~hasMax \/ Len(s) <= max)

\* isEmail() with its default options: user@domain, domain a fully
\* qualified name with an alphabetic top-level label of two or more letters
\* (user at most 64 characters, domain at most 254, a label at most 63)
EmailUserChar == Lower \cup Upper \cup Digit \cup {"!", "+", "-", "_"}
FqdnLabelChar == Lower \cup Upper \cup Digit \cup {"-"}

IsFQDN(d) ==
    LET parts == Split(d, ".")
        tld == parts[Len(parts)]
    IN  /\ Len(parts) >= 2
        /\ FullMatch(AtLeast(Lower \cup Upper, 2), tld)
        /\ \A k \in 1..Len(parts) :
              /\ Len(parts[k]) <= 63
              /\ FullMatch(AtLeast(FqdnLabelChar, 1), parts[k])
              /\ parts[k][1] # "-"
              /\ parts[k][Len(parts[k])] # "-"

IsEmail(s) ==
    LET at == {i \in 1..Len(s) : s[i] = "@"}
        user == SubSeq(s, 1, Max(at) - 1)
        domain == SubSeq(s, Max(at) + 1, Len(s))
        userParts == Split(user, ".")
    IN  /\ at # {}
        /\ Len(user) <= 64
        /\ Len(domain) <= 254
        /\ IsFQDN(domain)
        /\ \A k \in 1..Len(userParts) : FullMatch(AtLeast(EmailUserChar, 1), userParts[k])

\* normalizeEmail() with its default options, for domains that have no
\* provider-specific rule: lower-cases user and domain; the part after the
\* last "@" is the domain, so a text without "@" comes back as "@" \o text
NormalizeEmail(s) ==
    LET at == {i \in 1..Len(s) : s[i] = "@"}
    IN  IF at = {} THEN <<"@">> \o ToLowerCase(s) ELSE ToLowerCase(s)

\* matches(/^(?=.*[a-z])(?=.*[A-Z])(?=.*\d)/): three lookaheads at the
\* start of the text; "." matches any character except a line terminator
AnyChar == Char \ LineTerminator
PasswordLookahead(S) == Cat(<<AtLeast(AnyChar, 0), One(S)>>)
MatchesPassword(s) ==
    /\ PrefixMatch(PasswordLookahead(Lower), s)
    /\ PrefixMatch(PasswordLookahead(Upper), s)
    /\ PrefixMatch(PasswordLookahead(Digit), s)

\* matches(/^[+]?[(]?[0-9]{1,4}[)]?[-\s.]?[(]?[0-9]{1,4}[)]?[-\s.]?[0-9]{1,9}$/)
PhoneSep == {"-", "."} \cup Space
PhoneRegex ==
    Cat(<<Opt({"+"}), Opt({"("}), Cls(Digit, 1, 4), Opt({")"}), Opt(PhoneSep),
          Opt({"("}), Cls(Digit, 1, 4), Opt({")"}), Opt(PhoneSep), Cls(Digit, 1, 9)>>)
MatchesPhone(s) == FullMatch(PhoneRegex, s)

\* isIn(['patient', 'doctor', 'admin'])
RoleValues == {<<"p", "a", "t", "i", "e", "n", "t">>,
               <<"d", "o", "c", "t", "o", "r">>,
               <<"a", "d", "m", "i", "n">>}
IsInRoles(s) == s \in RoleValues


\* isISO8601() with its default options (strict is off: the text is matched
\* against the format only, the day is not checked against the month):
\*   /^([\+-]?\d{4}(?!\d{2}\b))((-?)((0[1-9]|1[0-2])(\3([12]\d|0[1-9]|3[01]))?
\*     |W([0-4]\d|5[0-3])(-?[1-7])?|(00[1-9]|0[1-9]\d|[12]\d{2}|3([0-5]\d|6[1-9])))
\*     ([T\s](time)?(zone)?)?)?$/
\* The back reference \3 (the separator chosen after the year) is expanded
\* into the two cases "-" and "".  Of the time part, hours, minutes, seconds
\* and the zone are modelled; fractions ([.,]\d+) are not.
Range2(a, S) == Cat(<<One({a}), One(S)>>)
IsoYear == Cat(<<Opt({"+", "-"}), Cls(Digit, 4, 4)>>)
IsoMonth == Alt(<<Range2("0", Digit \ {"0"}), Range2("1", {"0", "1", "2"})>>)
IsoDay == Alt(<<Cat(<<One({"1", "2"}), One(Digit)>>), Range2("0", Digit \ {"0"}),
                Range2("3", {"0", "1"})>>)
IsoWeek == Cat(<<One({"W"}),
                 Alt(<<Cat(<<One({"0", "1", "2", "3", "4"}), One(Digit)>>),
                       Range2("5", {"0", "1", "2", "3"})>>),
                 Alt(<<Cat(<<>>),
                       Cat(<<Opt({"-"}), One({"1", "2", "3", "4", "5", "6", "7"})>>)>>)>>)
IsoOrdinal == Alt(<<Cat(<<One({"0"}), One({"0"}), One(Digit \ {"0"})>>),
                    Cat(<<One({"0"}), One(Digit \ {"0"}), One(Digit)>>),
                    Cat(<<One({"1", "2"}), Cls(Digit, 2, 2)>>),
                    Cat(<<One({"3"}), One({"0", "1", "2", "3", "4", "5"}), One(Digit)>>),
                    Cat(<<One({"3"}), One({"6"}), One(Digit \ {"0"})>>)>>)
IsoDate(sep) ==
    Cat(<<Lit(sep),
          Alt(<<Cat(<<IsoMonth, Alt(<<Cat(<<>>), Cat(<<Lit(sep), IsoDay>>)>>)>>),
                IsoWeek, IsoOrdinal>>)>>)
IsoHour == Alt(<<Cat(<<One({"0", "1"}), One(Digit)>>), Range2("2", {"0", "1", "2", "3"})>>)
IsoSixty == Cat(<<One({"0", "1", "2", "3", "4", "5"}), One(Digit)>>)
IsoZone == Alt(<<Cat(<<>>), One({"z", "Z"}),
                 Cat(<<One({"+", "-"}), IsoHour, Opt({":"}),
                       Alt(<<Cat(<<>>), IsoSixty>>)>>)>>)
IsoClock(sep) ==
    Alt(<<Cat(<<>>),
          Cat(<<IsoHour,
                Alt(<<Cat(<<>>),
                      Cat(<<Lit(sep), IsoSixty,
                            Alt(<<Cat(<<>>), Cat(<<Lit(sep), IsoSixty>>)>>)>>)>>)>>),
          Cat(<<Lit(<<"2", "4">>), Opt({":"}), Lit(<<"0", "0">>)>>)>>)
IsoTime ==
    Alt(<<Cat(<<>>),
          Cat(<<One({"T"} \cup Space),
                Alt(<<IsoClock(<<":">>), IsoClock(<<>>)>>), IsoZone>>)>>)
IsoRest ==
    Alt(<<Cat(<<>>),
          Cat(<<Alt(<<IsoDate(<<"-">>), IsoDate(<<>>)>>), IsoTime>>)>>)

\* (?!\d{2}\b) at position p: not two digits followed by a word boundary
IsoYearLookahead(s, p) ==
    /\ p + 2 <= Len(s)
    /\ s[p + 1] \in Digit
    /\ s[p + 2] \in Digit
    /\ (p + 2 = Len(s) \/ s[p + 3] \notin WordChar)

IsISO8601(s) ==
    LET years == {p \in Ends(IsoYear, s, {0}) : ~IsoYearLookahead(s, p)}
    IN  Len(s) \in Ends(IsoRest, s, years)


\* isMongoId(): 24 hexadecimal digits (the rule that is commented out on
\* the doctor field)
HexDigit == Digit \cup {"a", "b", "c", "d", "e", "f", "A", "B", "C", "D", "E", "F"}
IsMongoId(s) == FullMatch(Cls(HexDigit, 24, 24), s)

\* ------------------------------------------------------------------------
\* Validation chains.  body(field) builds a chain: an ordered list of
\* items, each a sanitizer or a validator with its message; optional()
\* marks the whole chain.
\* ------------------------------------------------------------------------
NameMax == 100
PasswordMin == 8
ReasonMax == 500
SymptomMin == 10
SymptomMax == 2000

Sanitizer(kind) ==
    [kind |-> kind, validator |-> FALSE, msg |-> "", min |-> 0, hasMax |-> FALSE, max |-> 0]
Validator(kind, msg) ==
    [kind |-> kind, validator |-> TRUE, msg |-> msg, min |-> 0, hasMax |-> FALSE, max |-> 0]
MinLength(n, msg) ==
    [kind |-> "isLength", validator |-> TRUE, msg |-> msg, min |-> n, hasMax |-> FALSE, max |-> 0]
MaxLength(n, msg) ==
    [kind |-> "isLength", validator |-> TRUE, msg |-> msg, min |-> 0, hasMax |-> TRUE, max |-> n]
Chain(field, optional, items) == [field |-> field, optional |-> optional, items |-> items]

registerValidation ==
    <<Chain("name", FALSE,
            <<Sanitizer("trim"),
              Validator("notEmpty", "Name is required"),
              MaxLength(NameMax, "Name cannot exceed 100 characters")>>),
      Chain("email", FALSE,
            <<Sanitizer("trim"),
              Validator("isEmail", "Please provide a valid email"),
              Sanitizer("normalizeEmail")>>),
      Chain("password", FALSE,
            <<MinLength(PasswordMin, "Password must be at least 8 characters"),
              Validator("matchesPassword",
                        "Password must contain at least one uppercase letter, one lowercase letter, and one number")>>),
      Chain("role", TRUE,
            <<Validator("isInRoles", "Invalid role")>>),
      Chain("phone", TRUE,
            <<Sanitizer("trim"),
              Validator("matchesPhone", "Invalid phone number")>>)>>

loginValidation ==
    <<Chain("email", FALSE,
            <<Sanitizer("trim"),
              Validator("isEmail", "Please provide a valid email"),
              Sanitizer("normalizeEmail")>>),
      Chain("password", FALSE,
            <<Validator("notEmpty", "Password is required")>>)>>

\* variant: the commented-out isMongoId rule switched on
appointmentValidation_MongoId ==
    <<Chain("doctor", FALSE,
            <<Validator("notEmpty", "Doctor is required"),
              Validator("isMongoId", "Invalid doctor ID")>>),
      Chain("appointmentDate", FALSE,
            <<Validator("notEmpty", "Appointment date is required"),
              Validator("isISO8601", "Invalid date format")>>),
      Chain("appointmentTime", FALSE,
            <<Validator("notEmpty", "Appointment time is required"),
              Sanitizer("trim")>>),
      Chain("reason", TRUE,
            <<Sanitizer("trim"),
              MaxLength(ReasonMax, "Reason cannot exceed 500 characters")>>)>>

appointmentValidation ==
    <<Chain("doctor", FALSE,
            <<Validator("notEmpty", "Doctor is required")>>),
      Chain("appointmentDate", FALSE,
            <<Validator("notEmpty", "Appointment date is required"),
              Validator("isISO8601", "Invalid date format")>>),
      Chain("appointmentTime", FALSE,
            <<Validator("notEmpty", "Appointment time is required"),
              Sanitizer("trim")>>),
      Chain("reason", TRUE,
            <<Sanitizer("trim"),
              MaxLength(ReasonMax, "Reason cannot exceed 500 characters")>>)>>

\* variant: the symptoms text trimmed after the length rules
symptomValidation_TrimLast ==
    <<Chain("symptoms", FALSE,
            <<Validator("notEmpty", "Symptoms are required"),
              MinLength(SymptomMin, "Please provide at least 10 characters describing your symptoms"),
              MaxLength(SymptomMax, "Symptoms description cannot exceed 2000 characters"),
              Sanitizer("trim")>>)>>

symptomValidation ==
    <<Chain("symptoms", FALSE,
            <<Validator("notEmpty", "Symptoms are required"),
              Sanitizer("trim"),
              MinLength(SymptomMin, "Please provide at least 10 characters describing your symptoms"),
              MaxLength(SymptomMax, "Symptoms description cannot exceed 2000 characters")>>)>>

RuleSetNames == {"register", "login", "appointment", "symptom"}
RuleSet(name) ==
    CASE name = "register" -> registerValidation
      [] name = "login" -> loginValidation
      [] name = "appointment" -> appointmentValidation
      [] name = "symptom" -> symptomValidation
      [] OTHER -> <<>>

\* A field of req.body
Absent == [present |-> FALSE, val |-> <<>>]
Text(s) == [present |-> TRUE, val |-> s]

\* whether the validator item accepts the stringified value s
Passes(item, s) ==
    CASE item.kind = "notEmpty" -> NotEmpty(s)
      [] item.kind = "isLength" -> IsLength(s, item.min, item.hasMax, item.max)
      [] item.kind = "isEmail" -> IsEmail(s)
      [] item.kind = "matchesPassword" -> MatchesPassword(s)
      [] item.kind = "matchesPhone" -> MatchesPhone(s)
      [] item.kind = "isInRoles" -> IsInRoles(s)
      [] item.kind = "isISO8601" -> IsISO8601(s)
      [] item.kind = "isMongoId" -> IsMongoId(s)

\* the value a sanitizer item leaves in req.body
Sanitize(item, s) ==
    CASE item.kind = "trim" -> Trim(s)
      [] item.kind = "normalizeEmail" -> NormalizeEmail(s)

\* variant: a chain that stops validating after its first failure
RunItem_Bail(chain, item, v, errs) ==
    IF chain.optional /\ ~v.present
    THEN [value |-> v, errors |-> errs]
    ELSE IF item.validator
         THEN [value |-> v,
               errors |-> IF errs # <<>> \/ Passes(item, v.val) THEN errs
                          ELSE Append(errs, [param |-> chain.field, msg |-> item.msg, value |-> v.val])]
         ELSE [value |-> Text(Sanitize(item, v.val)), errors |-> errs]

\* One item of a chain run on the field's current value v, with errs the
\* errors the chain has recorded so far.  A chain marked optional selects
\* no field instance while the value is undefined, so the item does nothing.
\* A validator never stops the chain: the items after a failed one still run.
RunItem(chain, item, v, errs) ==
    IF chain.optional /\ ~v.present
    THEN [value |-> v, errors |-> errs]
    ELSE IF item.validator
         THEN [value |-> v,
               errors |-> IF Passes(item, v.val) THEN errs
                          ELSE Append(errs, [param |-> chain.field, msg |-> item.msg, value |-> v.val])]
         ELSE [value |-> Text(Sanitize(item, v.val)), errors |-> errs]


\* ------------------------------------------------------------------------
\* Middleware and routers
\* ------------------------------------------------------------------------
\* What a middleware did with a request: the number of times it called
\* next, the number of responses it sent, and the response.
Continue == [next |-> 1, send |-> 0, status |-> 0, success |-> TRUE, errors |-> <<>>]
Respond(status) == [next |-> 0, send |-> 1, status |-> status, success |-> TRUE, errors |-> <<>>]
Rejection(status) == [next |-> 0, send |-> 1, status |-> status, success |-> FALSE, errors |-> <<>>]

Roles == {"patient", "doctor", "admin"}
NoUser == "none"

\* protect: rejects a request that carries no principal
protect(user) == IF user = NoUser THEN Rejection(401) ELSE Continue

\* authorize(...roles): the principal's role must be one of roles; reading
\* the role of a missing principal throws, which ends the request in an
\* error response
authorize(roles, user) ==
    IF user = NoUser THEN Rejection(500)
    ELSE IF user \in roles THEN Continue ELSE Rejection(403)

\* variant: the patient exception without the query test
authorizeUsersList_AnyQuery(user, queryRole) ==
    IF user = NoUser THEN Rejection(500)
    ELSE IF user = "patient" THEN Continue
    ELSE authorize({"admin", "doctor"}, user)

\* authorizeUsersList: patients may list doctors; otherwise admin or doctor
authorizeUsersList(user, queryRole) ==
    IF user = NoUser THEN Rejection(500)
    ELSE IF user = "patient" /\ queryRole = "doctor" THEN Continue
    ELSE authorize({"admin", "doctor"}, user)

\* variant: next() without the return, so a failed request is answered
\* with 400 and handed on as well
validateRespond_NoReturn(errors) ==
    IF errors = <<>> THEN Continue
    ELSE [next |-> 1, send |-> 1, status |-> 400, success |-> FALSE, errors |-> errors]

\* validate(validations), after the chains have run: next() when there is
\* no error, otherwise 400 with success false and the list of errors
validateRespond(errors) ==
    IF errors = <<>> THEN Continue
    ELSE [next |-> 0, send |-> 1, status |-> 400, success |-> FALSE, errors |-> errors]

\* variant: settled as soon as one chain has run all of its items
PromiseAll_Race(rules, pos) == \E i \in 1..Len(rules) : pos[rules[i].field] = Len(rules[i].items)

\* await Promise.all(...): every chain has run all of its items
PromiseAll(rules, pos) == \A i \in 1..Len(rules) : pos[rules[i].field] = Len(rules[i].items)

\* validationResult(req).array(): the errors of the chains, in the order in
\* which the chains finished
RECURSIVE ValidationResult(_, _)
ValidationResult(finished, ctx) ==
    IF finished = <<>> THEN <<>>
    ELSE ctx[Head(finished)] \o ValidationResult(Tail(finished), ctx)

Mw(kind, name, roles, rules) == [kind |-> kind, name |-> name, roles |-> roles, rules |-> rules]
Gate(name) == Mw(name, name, {}, "none")
Authorize(roles) == Mw("authorize", "authorize", roles, "none")
Handler(name) == Mw("handler", name, {}, "none")
Validate(rules) == Mw("validate", "validate", {}, rules)
Layer(method, path, handlers) == [method |-> method, path |-> path, handlers |-> handlers]

\* variant: protect mounted after the two dashboard routes
userRouter_ProtectLate ==
    <<Layer("GET", "/stats", <<Handler("getDashboardStats")>>),
      Layer("GET", "/trends", <<Handler("getHealthTrends")>>),
      Layer("ALL", "*", <<Gate("protect")>>),
      Layer("GET", "/", <<Gate("authorizeUsersList"), Handler("getUsers")>>),
      Layer("GET", "/:id", <<Authorize({"admin", "doctor"}), Handler("getUserById")>>),
      Layer("PUT", "/:id", <<Authorize({"admin"}), Handler("updateUser")>>),
      Layer("DELETE", "/:id", <<Authorize({"admin"}), Handler("deleteUser")>>)>>

\* variant: the /:id routes registered in front of the dashboard routes
userRouter_IdFirst ==
    <<Layer("ALL", "*", <<Gate("protect")>>),
      Layer("GET", "/", <<Gate("authorizeUsersList"), Handler("getUsers")>>),
      Layer("GET", "/:id", <<Authorize({"admin", "doctor"}), Handler("getUserById")>>),
      Layer("PUT", "/:id", <<Authorize({"admin"}), Handler("updateUser")>>),
      Layer("DELETE", "/:id", <<Authorize({"admin"}), Handler("deleteUser")>>),
      Layer("GET", "/stats", <<Handler("getDashboardStats")>>),
      Layer("GET", "/trends", <<Handler("getHealthTrends")>>)>>

\* variant: the list gate reused on the single-user read
userRouter_ListGateOnId ==
    <<Layer("ALL", "*", <<Gate("protect")>>),
      Layer("GET", "/stats", <<Handler("getDashboardStats")>>),
      Layer("GET", "/trends", <<Handler("getHealthTrends")>>),
      Layer("GET", "/", <<Gate("authorizeUsersList"), Handler("getUsers")>>),
      Layer("GET", "/:id", <<Gate("authorizeUsersList"), Handler("getUserById")>>),
      Layer("PUT", "/:id", <<Authorize({"admin"}), Handler("updateUser")>>),
      Layer("DELETE", "/:id", <<Authorize({"admin"}), Handler("deleteUser")>>)>>

userRouter ==
    <<Layer("ALL", "*", <<Gate("protect")>>),
      Layer("GET", "/stats", <<Handler("getDashboardStats")>>),
      Layer("GET", "/trends", <<Handler("getHealthTrends")>>),
      Layer("GET", "/", <<Gate("authorizeUsersList"), Handler("getUsers")>>),
      Layer("GET", "/:id", <<Authorize({"admin", "doctor"}), Handler("getUserById")>>),
      Layer("PUT", "/:id", <<Authorize({"admin"}), Handler("updateUser")>>),
      Layer("DELETE", "/:id", <<Authorize({"admin"}), Handler("deleteUser")>>)>>

\* the routes that put validate(rules) in front of a handler
formRouter ==
    <<Layer("POST", "/register", <<Validate("register"), Handler("register")>>),
      Layer("POST", "/login", <<Validate("login"), Handler("login")>>),
      Layer("POST", "/appointment", <<Validate("appointment"), Handler("createAppointment")>>),
      Layer("POST", "/symptom", <<Validate("symptom"), Handler("analyzeSymptoms")>>)>>

Stack(r) == IF r.router = "users" THEN userRouter ELSE formRouter

\* Express route matching: use() without a path matches every request; a
\* route matches its method and its path, "/:id" matching any one segment
Matches(l, r) ==
    \/ l.method = "ALL"
    \/ /\ l.method = r.method
       /\ \/ l.path = r.path
          \/ l.path = "/:id" /\ r.path # "/"

\* ------------------------------------------------------------------------
\* Requests
\* ------------------------------------------------------------------------
Fields == {"name", "email", "password", "role", "phone",
           "doctor", "appointmentDate", "appointmentTime", "reason", "symptoms"}
EmptyBody == [f \in Fields |-> Absent]
Body(fields) == [f \in Fields |-> IF f \in DOMAIN fields THEN fields[f] ELSE Absent]

Pads == {Rep(" ", k) : k \in 0..MaxPad}
Padded(s) == {l \o s \o r : l \in Pads, r \in Pads}
Texts(S) == {Text(s) : s \in S}

\* the texts the requests are built from
sA == <<"A">>
sSpace == <<" ">>
sEmail == <<"x", "@", "y", ".", "c", "o", "m">>
sEmailUpper == <<"X", "@", "Y", ".", "C", "O", "M">>
sNoAt == <<"x", "y">>
sNoTld == <<"x", "@", "y">>
sLowerOnly == <<"a", "b", "c", "d", "e", "f", "g", "h">>
sGoodPassword == <<"A", "b", "c", "d", "e", "f", "1", "2">>
sShortPassword == <<"a", "b", "c">>
sShortMixed == <<"A", "b", "1">>
sDoctor == <<"d", "o", "c", "t", "o", "r">>
sNurse == <<"n", "u", "r", "s", "e">>
sPhone == <<"1", "2", "3">>
sPhoneLong == <<"+", "(", "3", "6", ")", "3", "0", "-", "1", "2", "3", "4", "5", "6", "7">>
sPhoneBad == <<"a", "1", "2">>
sDoctorName == <<"d", "r", "-", "s", "m", "i", "t", "h">>
sDate == <<"2", "0", "2", "5", "-", "0", "1", "-", "1", "5">>
sDateBasic == <<"2", "0", "2", "5", "0", "1", "1", "5">>
sFeb30 == <<"2", "0", "2", "5", "-", "0", "2", "-", "3", "0">>
sNotADate == <<"n", "o", "t", "-", "a", "-", "d", "a", "t", "e">>
sMonth13 == <<"2", "0", "2", "5", "-", "1", "3", "-", "0", "1">>
sYear == <<"2", "0", "2", "5">>
sDateTime == <<"2", "0", "2", "5", "-", "0", "1", "-", "1", "5", "T", "1", "0", ":", "3", "0">>
sNoZero == <<"2", "0", "2", "5", "-", "1", "-", "5">>
sTime == <<"1", "0", ":", "3", "0">>
sNewlineFirst == <<"\n", "A", "b", "c", "d", "e", "f", "1", "2">>
sMongoId == Rep("a", 24)

UserMethods == {"GET", "PUT", "DELETE", "POST"}
UserPaths == {"/", "/stats", "/trends", "/42"}
QueryRoles == {"none", "doctor", "patient"}

Request(router, method, path, user, queryRole, body, sched) ==
    [router |-> router, method |-> method, path |-> path, user |-> user,
     queryRole |-> queryRole, body |-> body, sched |-> sched]

UserRequests ==
    {Request("users", m, p, u, q, b, "any") :
        m \in UserMethods, p \in UserPaths, u \in Roles \cup {NoUser}, q \in QueryRoles,
        b \in {EmptyBody, Body([name |-> Text(sA)])}}

\* bodies whose chains are run in every interleaving
RegisterBodies ==
    {Body([name |-> n, email |-> e, password |-> pw, role |-> r, phone |-> ph]) :
        n \in {Text(sA), Text(<<>>)},
        e \in {Text(sEmail), Text(sNoAt)},
        pw \in Texts({sGoodPassword, sLowerOnly, sShortPassword}),
        r \in {Absent, Text(sNurse)},
        ph \in {Absent}}
LoginBodies ==
    {Body([email |-> e, password |-> pw]) :
        e \in {Absent} \cup Texts({sEmail, sEmailUpper, sNoAt, sNoTld}),
        pw \in {Absent} \cup Texts({<<>>, sA})}
AppointmentBodies ==
    {Body([doctor |-> d, appointmentDate |-> dt, appointmentTime |-> tm, reason |-> rs]) :
        d \in {Absent} \cup Texts({sDoctorName}),
        dt \in Texts({sDate, sNotADate, <<>>}),
        tm \in Texts({sTime, sSpace}),
        rs \in {Absent} \cup Texts({Rep("r", ReasonMax + 1)})}

\* larger families, run with the chains in declaration order
PasswordAlphabet == {"a", "A", "1", "\n"}
RECURSIVE Cores(_)
Cores(n) ==
    IF n = 0 THEN {<<>>}
    ELSE LET shorter == Cores(n - 1)
         IN  shorter \cup {Append(s, c) : s \in shorter, c \in PasswordAlphabet}
Passwords ==
    {core \o Rep("!", n) : core \in Cores(MaxCore),
                           n \in {0, PasswordMin - 4, PasswordMin - 3}}
Names == {<<>>, sA, sSpace, Rep("n", NameMax), Rep("n", NameMax + 1)}
         \cup Padded(Rep("n", NameMax))
ValidRegistration == [name |-> Text(sA), email |-> Text(sEmail), password |-> Text(sGoodPassword)]
RegisterFamily ==
    {Body([ValidRegistration EXCEPT !.password = Text(pw)]) : pw \in Passwords}
    \cup {Body([ValidRegistration EXCEPT !.name = n]) : n \in {Absent} \cup Texts(Names)}
    \cup {Body([ValidRegistration EXCEPT !.email = e]) :
            e \in {Absent} \cup Texts({sEmail, sEmailUpper, sNoAt, sNoTld} \cup Padded(sEmail))}
    \cup {Body([name |-> Text(sA), email |-> Text(sEmail), password |-> pw, role |-> r, phone |-> ph]) :
            pw \in Texts({sGoodPassword, sShortMixed, sNewlineFirst}),
            r \in {Absent} \cup Texts({<<>>, sDoctor, sNurse}),
            ph \in {Absent} \cup Texts({sPhone, sPhoneLong, sPhoneBad} \cup Padded(sPhone))}
Dates == {<<>>, sDate, sDateBasic, sFeb30, sNotADate, sMonth13, sYear, sDateTime, sNoZero}
ValidAppointment == [doctor |-> Text(sDoctorName), appointmentDate |-> Text(sDate),
                     appointmentTime |-> Text(sTime)]
AppointmentFamily ==
    {Body([ValidAppointment EXCEPT !.doctor = d, !.appointmentDate = dt]) :
        d \in {Absent} \cup Texts({<<>>, sSpace, sDoctorName, sMongoId}),
        dt \in {Absent} \cup Texts(Dates)}
    \cup {Body([ValidAppointment EXCEPT !.appointmentTime = tm]) :
            tm \in {Absent} \cup Texts(Pads \cup Padded(sTime))}
    \cup {Body([doctor |-> Text(sDoctorName), appointmentDate |-> Text(sDate),
                appointmentTime |-> tm, reason |-> rs]) :
            tm \in Texts({sTime, sSpace}),
            rs \in {Absent} \cup Texts({<<>>, Rep("r", ReasonMax + 1)} \cup Padded(Rep("r", ReasonMax)))}
SymptomLengths == {0, 1, SymptomMin - 1, SymptomMin, SymptomMax, SymptomMax + 1}
SymptomBodies ==
    {Body([symptoms |-> s]) :
        s \in {Absent}
              \cup Texts(UNION {Padded(Rep("x", n)) : n \in SymptomLengths})
              \cup Texts(Padded(Rep("x", 4) \o sSpace \o Rep("x", SymptomMin - 5)))}

FormRequests ==
    {Request("forms", "POST", "/register", NoUser, "none", b, "any") : b \in RegisterBodies}
    \cup {Request("forms", "POST", "/login", NoUser, "none", b, "any") : b \in LoginBodies}
    \cup {Request("forms", "POST", "/appointment", NoUser, "none", b, "any") : b \in AppointmentBodies}
    \cup {Request("forms", "POST", "/symptom", NoUser, "none", b, "any") : b \in SymptomBodies}
    \cup {Request("forms", "POST", "/register", NoUser, "none", b, "inOrder") : b \in RegisterFamily}
    \cup {Request("forms", "POST", "/appointment", NoUser, "none", b, "inOrder") : b \in AppointmentFamily}
    \cup {Request("forms", "GET", "/register", NoUser, "none", EmptyBody, "any")}

Requests == UserRequests \cup FormRequests

\* ------------------------------------------------------------------------
\* State
\* ------------------------------------------------------------------------
VARIABLES
    request,    \* the request as the client sent it
    body,       \* req.body, which the sanitizers rewrite
    pc,         \* "dispatch": looking for the next matching layer;
                \* "mw": in the middleware at (layer, hpos); "done"
    layer,      \* index of the router layer
    hpos,       \* index of the middleware within the matched layer
    vpos,       \* per field: number of items its chain has run
    vctx,       \* per field: the errors its chain has recorded
    contexts,   \* the fields whose chains have finished, in that order
    res,        \* the response: status (0: none sent), number of sends, payload
    trace       \* the middlewares that have run, with what each did

vars == <<request, body, pc, layer, hpos, vpos, vctx, contexts, res, trace>>

\* ------------------------------------------------------------------------
\* The Appointments page (client): state of the booking form
\* ------------------------------------------------------------------------
\* bounds of the form model
\* largest number of create calls that handleSubmit starts
MaxSubmits == 2
\* number of midnights that may pass while the page is open
MaxMidnights == 1

\* the day the page is opened on, counted in days
FirstDay == 10

\* errors.<field> of a field that validateField has not set yet
Undefined == "undefined"
NoErrors == [doctor |-> Undefined, appointmentDate |-> Undefined,
             appointmentTime |-> Undefined, reason |-> Undefined]
\* the all-empty formData; a date text is <<>> ('') or <<d>>, the text that
\* names day d
EmptyForm == [doctor |-> "", appointmentDate |-> <<>>, appointmentTime |-> <<>>,
              reason |-> <<>>, symptoms |-> <<>>]

VARIABLES
    showForm,     \* whether the booking form is shown
    formData,     \* doctor, appointmentDate, appointmentTime, reason, symptoms
    errors,       \* per validated field: Undefined, '' or a message
    showSuccess,  \* whether the success banner is shown
    loading,      \* TRUE until the first fetchAppointments has ended
    fetches,      \* number of fetchAppointments calls started so far
    creating,     \* appointmentService.create calls that have not ended yet
    booked,       \* number of bookings that have succeeded
    timers,       \* pending hide timers, oldest first, each the number of
                  \* the booking that started it
    today,        \* the current day
    west,         \* the browser's time zone lies west of UTC
    last          \* the handler step taken last, with the state before it

formVars == <<showForm, formData, errors, showSuccess, loading, fetches,
              creating, booked, timers, today, west, last>>

Snapshot == [showForm |-> showForm, formData |-> formData, errors |-> errors,
             showSuccess |-> showSuccess, fetches |-> fetches, creating |-> creating]
NoSnapshot == [showForm |-> FALSE, formData |-> EmptyForm, errors |-> NoErrors,
               showSuccess |-> FALSE, fetches |-> 0, creating |-> 0]
Step(kind, before, sent) == [kind |-> kind, before |-> before, sent |-> sent]

\* the component as mounted: useState initial values, the mount effect has
\* started fetchAppointments
FormMounted ==
    /\ showForm = FALSE
    /\ formData = EmptyForm
    /\ errors = NoErrors
    /\ showSuccess = FALSE
    /\ loading = TRUE
    /\ fetches = 1
    /\ creating = 0
    /\ booked = 0
    /\ timers = <<>>
    /\ today = FirstDay
    /\ last = Step("other", NoSnapshot, EmptyForm)

Init ==
    /\ request \in Requests
    /\ body = request.body
    /\ pc = "dispatch"
    /\ layer = 1
    /\ hpos = 0
    /\ vpos = [f \in Fields |-> 0]
    /\ vctx = [f \in Fields |-> <<>>]
    /\ contexts = <<>>
    /\ res = [status |-> 0, sends |-> 0, success |-> TRUE, errors |-> <<>>]
    /\ trace = <<>>
    /\ FormMounted
    /\ west = FALSE

Current == Stack(request)[layer].handlers[hpos]

\* the router looks at the next layer: it does not match
DispatchSkip ==
    /\ pc = "dispatch"
    /\ layer <= Len(Stack(request))
    /\ ~Matches(Stack(request)[layer], request)
    /\ layer' = layer + 1
    /\ UNCHANGED <<request, body, pc, hpos, vpos, vctx, contexts, res, trace>>
    /\ UNCHANGED formVars

\* the layer matches: its first middleware is entered
DispatchMatch ==
    /\ pc = "dispatch"
    /\ layer <= Len(Stack(request))
    /\ Matches(Stack(request)[layer], request)
    /\ pc' = "mw"
    /\ hpos' = 1
    /\ UNCHANGED <<request, body, layer, vpos, vctx, contexts, res, trace>>
    /\ UNCHANGED formVars

\* no layer is left: the request leaves the router unanswered
DispatchEnd ==
    /\ pc = "dispatch"
    /\ layer > Len(Stack(request))
    /\ pc' = "done"
    /\ UNCHANGED <<request, body, layer, hpos, vpos, vctx, contexts, res, trace>>
    /\ UNCHANGED formVars

\* the current middleware ends with outcome o
Finish(o) ==
    /\ trace' = Append(trace, [kind |-> Current.kind, name |-> Current.name,
                               next |-> o.next, send |-> o.send])
    /\ res' = IF o.send > 0
              THEN [status |-> o.status, sends |-> res.sends + o.send,
                    success |-> o.success, errors |-> o.errors]
              ELSE res
    /\ IF o.next > 0
       THEN IF hpos < Len(Stack(request)[layer].handlers)
            THEN /\ hpos' = hpos + 1
                 /\ UNCHANGED <<pc, layer>>
            ELSE /\ hpos' = 0
                 /\ layer' = layer + 1
                 /\ pc' = "dispatch"
       ELSE /\ pc' = "done"
            /\ UNCHANGED <<layer, hpos>>

RunProtect ==
    /\ pc = "mw"
    /\ Current.kind = "protect"
    /\ Finish(protect(request.user))
    /\ UNCHANGED <<request, body, vpos, vctx, contexts>>
    /\ UNCHANGED formVars

RunAuthorize ==
    /\ pc = "mw"
    /\ Current.kind = "authorize"
    /\ Finish(authorize(Current.roles, request.user))
    /\ UNCHANGED <<request, body, vpos, vctx, contexts>>
    /\ UNCHANGED formVars

RunAuthorizeUsersList ==
    /\ pc = "mw"
    /\ Current.kind = "authorizeUsersList"
    /\ Finish(authorizeUsersList(request.user, request.queryRole))
    /\ UNCHANGED <<request, body, vpos, vctx, contexts>>
    /\ UNCHANGED formVars

\* a controller: answers the request
RunHandler ==
    /\ pc = "mw"
    /\ Current.kind = "handler"
    /\ Finish(Respond(200))
    /\ UNCHANGED <<request, body, vpos, vctx, contexts>>
    /\ UNCHANGED formVars

\* validate: one chain runs its next item
ValidateStep ==
    /\ pc = "mw"
    /\ Current.kind = "validate"
    /\ \E i \in 1..Len(RuleSet(Current.rules)) :
          LET rules == RuleSet(Current.rules)
              chain == rules[i]
              f == chain.field
              r == RunItem(chain, chain.items[vpos[f] + 1], body[f], vctx[f])
          IN  /\ vpos[f] < Len(chain.items)
              /\ request.sched = "inOrder" =>
                    \A j \in 1..(i - 1) : vpos[rules[j].field] = Len(rules[j].items)
              /\ body' = [body EXCEPT ![f] = r.value]
              /\ vctx' = [vctx EXCEPT ![f] = r.errors]
              /\ vpos' = [vpos EXCEPT ![f] = vpos[f] + 1]
              /\ contexts' = IF vpos[f] + 1 = Len(chain.items)
                             THEN Append(contexts, f) ELSE contexts
    /\ UNCHANGED <<request, pc, layer, hpos, res, trace>>
    /\ UNCHANGED formVars

\* validate: the chains have run; the result is read and acted on
ValidateRespond ==
    /\ pc = "mw"
    /\ Current.kind = "validate"
    /\ PromiseAll(RuleSet(Current.rules), vpos)
    /\ Finish(validateRespond(ValidationResult(contexts, vctx)))
    /\ UNCHANGED <<request, body, vpos, vctx, contexts>>
    /\ UNCHANGED formVars

Next ==
    \/ DispatchSkip
    \/ DispatchMatch
    \/ DispatchEnd
    \/ RunProtect
    \/ RunAuthorize
    \/ RunAuthorizeUsersList
    \/ RunHandler
    \/ ValidateStep
    \/ ValidateRespond

allVars == <<vars, formVars>>

Spec == Init /\ [][Next]_allVars
\* ------------------------------------------------------------------------
\* Properties
\* ------------------------------------------------------------------------
Ran(name) == \E i \in DOMAIN trace : trace[i].name = name
RanKind(kinds) == \E i \in DOMAIN trace : trace[i].kind \in kinds
PassedGate(name) == \E i \in DOMAIN trace : trace[i].name = name /\ trace[i].next = 1
Authenticated == request.router = "users" /\ request.user # NoUser
OnUsersList == request.router = "users" /\ request.method = "GET" /\ request.path = "/"
\* a request for one of the /users/:id routes
OnUserId(method) ==
    /\ request.router = "users"
    /\ request.method = method
    /\ request.path # "/"
    /\ ~(method = "GET" /\ request.path \in {"/stats", "/trends"})

\* C1: on GET /users an authenticated request passes the gate and reaches
\* getUsers exactly when the principal is a patient asking for role=doctor,
\* or is an admin or a doctor; every other request is answered 403.
MayListUsers ==
    \/ request.user = "patient" /\ request.queryRole = "doctor"
    \/ request.user \in {"admin", "doctor"}
C1_UsersListGate ==
    (Authenticated /\ OnUsersList) =>
        /\ Ran("authorizeUsersList") => (PassedGate("authorizeUsersList") <=> MayListUsers)
        /\ Ran("getUsers") => MayListUsers
        /\ pc = "done" =>
              IF MayListUsers
              THEN Ran("getUsers") /\ res.status = 200
              ELSE ~Ran("getUsers") /\ res.status = 403 /\ res.sends = 1
C1_Witness ==
    /\ pc = "done"
    /\ OnUsersList
    /\ request.user = "patient"
    /\ request.queryRole = "doctor"
    /\ Ran("getUsers")

\* C2: a request without a principal is answered 401 on every route of the
\* user router, whatever its method, query or body; no role check and no
\* handler runs for it.
C2_Unauthenticated ==
    (request.router = "users" /\ request.user = NoUser) =>
        /\ ~RanKind({"authorize", "authorizeUsersList", "handler"})
        /\ pc = "done" =>
              /\ res.status = 401
              /\ res.sends = 1
              /\ Len(trace) = 1
              /\ trace[1].name = "protect"
C2_Witness ==
    /\ pc = "done"
    /\ request.router = "users"
    /\ request.user = NoUser
    /\ request.method = "GET"
    /\ request.path = "/stats"
    /\ request.queryRole = "doctor"
    /\ res.status = 401

\* C3: on /users/:id the decision depends on the role alone: GET reaches
\* getUserById iff the role is admin or doctor, PUT and DELETE reach their
\* handler iff the role is admin, every other principal is answered 403;
\* a patient is answered 403 there also with role=doctor in the query.
IdRoute(method, roles, handler) ==
    (Authenticated /\ OnUserId(method)) =>
        /\ Ran(handler) => request.user \in roles
        /\ pc = "done" =>
              IF request.user \in roles
              THEN Ran(handler) /\ res.status = 200
              ELSE /\ ~RanKind({"handler"})
                   /\ res.status = 403
                   /\ res.sends = 1
C3_UserIdRoutes ==
    /\ IdRoute("GET", {"admin", "doctor"}, "getUserById")
    /\ IdRoute("PUT", {"admin"}, "updateUser")
    /\ IdRoute("DELETE", {"admin"}, "deleteUser")
C3_Witness ==
    /\ pc = "done"
    /\ OnUserId("GET")
    /\ request.user = "patient"
    /\ request.queryRole = "doctor"
    /\ res.status = 403

\* C4: a handler runs only after every gate in front of it has run and
\* called next; a request answered 401, 403 or 400 by a gate never reaches
\* a handler; every gate that ran either called next once or sent one
\* response, never both and never neither.
\* the middlewares in front of position (l, h) of the stack, for this request
GatesBefore(l, h) ==
    LET stack == Stack(request)
        IsBefore(a, b) == a[1] < b[1] \/ (a[1] = b[1] /\ a[2] < b[2])
    IN  {<<i, j>> \in (1..Len(stack)) \X (1..2) :
            /\ j <= Len(stack[i].handlers)
            /\ IsBefore(<<i, j>>, <<l, h>>)
            /\ Matches(stack[i], request)}
HandlerPlace(name) ==
    CHOOSE p \in (1..Len(Stack(request))) \X (1..2) :
        /\ p[2] <= Len(Stack(request)[p[1]].handlers)
        /\ Stack(request)[p[1]].handlers[p[2]].name = name
        /\ Stack(request)[p[1]].handlers[p[2]].kind = "handler"
C4_GatesBeforeHandler ==
    /\ \A i \in DOMAIN trace :
          /\ trace[i].kind # "handler" => trace[i].next + trace[i].send = 1
          /\ trace[i].kind = "handler" =>
                LET place == HandlerPlace(trace[i].name)
                    gates == GatesBefore(place[1], place[2])
                IN  /\ i = Len(trace)
                    /\ Cardinality(gates) = i - 1
                    /\ \A g \in gates :
                          \E j \in 1..(i - 1) :
                              /\ trace[j].name = Stack(request)[g[1]].handlers[g[2]].name
                              /\ trace[j].next = 1
                              /\ trace[j].send = 0
    /\ res.sends <= 1
    /\ res.status \in {400, 401, 403} => ~RanKind({"handler"})
    /\ (\E i \in DOMAIN trace : trace[i].kind # "handler" /\ trace[i].send > 0) =>
          ~RanKind({"handler"})
C4_Witness ==
    /\ pc = "done"
    /\ request.path = "/appointment"
    /\ Len(trace) = 2
    /\ trace[1].kind = "validate"
    /\ trace[1].next = 1
    /\ trace[2].kind = "handler"
    /\ res.status = 200
\* the rule set in front of the handler the request is routed to
RequestRules ==
    IF request.router = "forms" /\ request.method = "POST"
    THEN RuleSet(formRouter[CHOOSE l \in 1..Len(formRouter) :
                                formRouter[l].path = request.path].handlers[1].rules)
    ELSE <<>>
Sent(f) == request.body[f]
ValidateRan == RanKind({"validate"})
ValidatePassed == \E i \in DOMAIN trace : trace[i].kind = "validate" /\ trace[i].next = 1 /\ trace[i].send = 0
Cites(f) == \E j \in DOMAIN res.errors : res.errors[j].param = f

\* the text the k-th item of a chain is given: the text sent, rewritten by
\* the sanitizers in front of that item
RECURSIVE SanitizedAt(_, _, _)
SanitizedAt(chain, k, s) ==
    IF k = 1 THEN s
    ELSE LET before == SanitizedAt(chain, k - 1, s)
         IN  IF chain.items[k - 1].validator THEN before
             ELSE Sanitize(chain.items[k - 1], before)
\* the rules of a chain that the value sent violates, each judged by itself
ViolatedRules(chain, v) ==
    IF chain.optional /\ ~v.present THEN {}
    ELSE {k \in 1..Len(chain.items) :
             /\ chain.items[k].validator
             /\ ~Passes(chain.items[k], SanitizedAt(chain, k, v.val))}
AllFailures ==
    UNION {{<<RequestRules[i].field, RequestRules[i].items[k].msg>> :
               k \in ViolatedRules(RequestRules[i], Sent(RequestRules[i].field))} :
           i \in 1..Len(RequestRules)}

\* C5: validate responds only when every rule of every field has run, in
\* whatever order the chains finish; with at least one failure it answers
\* 400, success false, and the errors are exactly all failures of all
\* fields; with none it calls next and sends nothing.
C5_AllRulesThenAllErrors ==
    ValidateRan =>
        /\ \A i \in 1..Len(RequestRules) :
              vpos[RequestRules[i].field] = Len(RequestRules[i].items)
        /\ IF AllFailures # {}
           THEN /\ res.status = 400
                /\ res.success = FALSE
                /\ res.sends = 1
                /\ {<<res.errors[j].param, res.errors[j].msg>> : j \in DOMAIN res.errors} = AllFailures
                /\ Len(res.errors) = Cardinality(AllFailures)
                /\ ~ValidatePassed
           ELSE /\ ValidatePassed
                /\ res.status # 400
C5_Witness ==
    /\ pc = "done"
    /\ request.router = "forms"
    /\ request.sched = "any"
    /\ res.status = 400
    /\ Len(res.errors) >= 3
    /\ \E j, k \in DOMAIN res.errors : res.errors[j].param # res.errors[k].param
    /\ contexts[1] # RequestRules[1].field

\* C6: no rule is skipped because an earlier rule of its field failed: a
\* finished chain has recorded one failure for each rule the value violates,
\* in rule order; a field marked optional and absent from the body records
\* none, and the other fields are judged as usual.
C6_NoShortCircuit ==
    \A i \in 1..Len(RequestRules) :
        LET chain == RequestRules[i]
            f == chain.field
            violated == ViolatedRules(chain, Sent(f))
        IN  vpos[f] = Len(chain.items) =>
                /\ Len(vctx[f]) = Cardinality(violated)
                /\ {vctx[f][j].msg : j \in DOMAIN vctx[f]} = {chain.items[k].msg : k \in violated}
                /\ \A j \in DOMAIN vctx[f] : vctx[f][j].param = f
                /\ (chain.optional /\ ~Sent(f).present) => vctx[f] = <<>>
C6_Witness ==
    /\ pc = "done"
    /\ request.path = "/register"
    /\ Sent("password") = Text(sShortPassword)
    /\ ~Sent("role").present
    /\ Len(vctx["password"]) = 2
    /\ vctx["role"] = <<>>
    /\ Len(vctx["name"]) = 1

\* C7: in the appointment rule set a request whose appointmentTime is
\* absent, empty or only whitespace fails validation with a failure citing
\* appointmentTime, and the handler does not run.
C7_AppointmentTimeRequired ==
    (request.path = "/appointment" /\ ValidateRan /\ Trim(Sent("appointmentTime").val) = <<>>) =>
        /\ res.status = 400
        /\ Cites("appointmentTime")
        /\ ~RanKind({"handler"})

\* C8: in the registration rule set the password passes iff it has at
\* least 8 characters and contains a lowercase letter, an uppercase letter
\* and a digit; 'abcdefgh' fails citing password; name 'A', email
\* 'x@y.com', password 'Abcdef12' without role and phone passes with no
\* failure at all.
Contains(s, S) == \E i \in 1..Len(s) : s[i] \in S
PasswordAsDocumented(s) ==
    /\ Len(s) >= PasswordMin
    /\ Contains(s, Lower)
    /\ Contains(s, Upper)
    /\ Contains(s, Digit)
C8_PasswordRule ==
    (request.path = "/register" /\ request.method = "POST" /\ vpos["password"] = 2) =>
        /\ (vctx["password"] = <<>>) <=> PasswordAsDocumented(Sent("password").val)
        /\ Sent("password") = Text(sLowerOnly) => vctx["password"] # <<>>
        /\ (request.body = Body(ValidRegistration) /\ ValidateRan) =>
              ValidatePassed /\ res.errors = <<>>

\* C9: the symptoms text is accepted iff its length after trimming is
\* between 10 and 2000 inclusive; whitespace at either end does not count.
TrimmedLength(s) ==
    LET ink == {i \in 1..Len(s) : s[i] \notin Space}
    IN  IF ink = {} THEN 0 ELSE Max(ink) - Min(ink) + 1
C9_SymptomLength ==
    (request.path = "/symptom" /\ ValidateRan) =>
        /\ ValidatePassed <=> TrimmedLength(Sent("symptoms").val) \in SymptomMin..SymptomMax
        /\ ~ValidatePassed => res.status = 400 /\ Cites("symptoms")
        /\ Sent("symptoms") = Text(Rep("x", SymptomMin - 1)) => ~ValidatePassed
        /\ Sent("symptoms") = Text(Rep("x", SymptomMin)) => ValidatePassed
        /\ Sent("symptoms") = Text(Rep("x", SymptomMax)) => ValidatePassed
        /\ Sent("symptoms") = Text(Rep("x", SymptomMax + 1)) => ~ValidatePassed
C9_Witness ==
    /\ pc = "done"
    /\ request.path = "/symptom"
    /\ Sent("symptoms") = Text(sSpace \o Rep("x", SymptomMax) \o sSpace)
    /\ Ran("analyzeSymptoms")
\* Calendar dates, for C10: a text that starts with a year, a month and a
\* day (YYYY-MM-DD or YYYYMMDD) names a missing day when the month has
\* fewer days than that.
DigitSeq == <<"0", "1", "2", "3", "4", "5", "6", "7", "8", "9">>
Num(c) == (CHOOSE k \in 1..Len(DigitSeq) : DigitSeq[k] = c) - 1
Num2(a, b) == 10 * Num(a) + Num(b)
IsLeapYear(y) == (y % 4 = 0 /\ y % 100 # 0) \/ y % 400 = 0
DaysInMonth(y, m) ==
    IF m = 2 THEN (IF IsLeapYear(y) THEN 29 ELSE 28)
    ELSE IF m \in {4, 6, 9, 11} THEN 30 ELSE 31
NamesMissingDay(s) ==
    LET dashed == /\ Len(s) >= 10
                  /\ FullMatch(Cat(<<Cls(Digit, 4, 4), One({"-"}), Cls(Digit, 2, 2),
                                     One({"-"}), Cls(Digit, 2, 2)>>), SubSeq(s, 1, 10))
        basic == Len(s) >= 8 /\ FullMatch(Cls(Digit, 8, 8), SubSeq(s, 1, 8))
        y == 100 * Num2(s[1], s[2]) + Num2(s[3], s[4])
        m == IF dashed THEN Num2(s[6], s[7]) ELSE Num2(s[5], s[6])
        d == IF dashed THEN Num2(s[9], s[10]) ELSE Num2(s[7], s[8])
    IN  /\ dashed \/ basic
        /\ m \in 1..12
        /\ d > DaysInMonth(y, m)
ParsesAsCalendarDate(s) == IsISO8601(s) /\ ~NamesMissingDay(s)

\* C10 as stated: the doctor field passes for every non-empty text and
\* fails only when empty or absent; appointmentDate fails, citing
\* appointmentDate, for every value that does not parse as a calendar date;
\* the two fields are judged independently.
C10_DoctorAndDate ==
    (request.path = "/appointment" /\ ValidateRan) =>
        /\ (vctx["doctor"] = <<>>) <=> (Sent("doctor").val # <<>>)
        /\ ~ParsesAsCalendarDate(Sent("appointmentDate").val) =>
              vctx["appointmentDate"] # <<>> /\ Cites("appointmentDate")

\* C10 as amended: the doctor field passes for every non-empty text and
\* fails only when empty or absent; appointmentDate fails, citing
\* appointmentDate, for every value that is not in ISO 8601 format
\* ('not-a-date', month 13, a month or day without its leading zero); only
\* the format is checked, so a well-formed date that names a day missing
\* from the calendar (2025-02-30) passes; the two fields are judged
\* independently.
BadFormatDates == {<<>>, sNotADate, sMonth13, sNoZero}
GoodFormatDates == {sDate, sDateBasic, sYear, sDateTime, sFeb30}
C10_DoctorAndDateFormat ==
    (request.path = "/appointment" /\ ValidateRan) =>
        /\ (vctx["doctor"] = <<>>) <=> (Sent("doctor").val # <<>>)
        /\ res.status = 400 => (Cites("doctor") <=> Sent("doctor").val = <<>>)
        /\ Sent("appointmentDate").val \in BadFormatDates =>
              /\ res.status = 400
              /\ \E j \in DOMAIN res.errors :
                    /\ res.errors[j].param = "appointmentDate"
                    /\ res.errors[j].msg = "Invalid date format"
        /\ Sent("appointmentDate").val \in GoodFormatDates => vctx["appointmentDate"] = <<>>
        /\ (vctx["appointmentDate"] = <<>>) <=> IsISO8601(Sent("appointmentDate").val)
C10_Witness ==
    /\ pc = "done"
    /\ request.path = "/appointment"
    /\ Sent("doctor") = Text(sDoctorName)
    /\ Sent("appointmentDate") = Text(sNotADate)
    /\ res.status = 400
    /\ Cites("appointmentDate")
    /\ ~Cites("doctor")
\* C11: GET /users/stats and GET /users/trends reach their handlers for
\* every authenticated principal, whatever its role and the query; no role
\* check runs on them, and being matched before /:id they never reach
\* getUserById or its admin/doctor allow-list.
DashboardRoute(path, handler) ==
    (Authenticated /\ request.method = "GET" /\ request.path = path) =>
        /\ ~RanKind({"authorize", "authorizeUsersList"})
        /\ ~Ran("getUserById")
        /\ pc = "done" =>
              /\ Ran(handler)
              /\ res.status = 200
              /\ res.sends = 1
              /\ Len(trace) = 2
C11_DashboardRoutes ==
    /\ DashboardRoute("/stats", "getDashboardStats")
    /\ DashboardRoute("/trends", "getHealthTrends")
C11_Witness ==
    /\ pc = "done"
    /\ request.router = "users"
    /\ request.method = "GET"
    /\ request.path = "/trends"
    /\ request.user = "patient"
    /\ request.queryRole = "patient"
    /\ Ran("getHealthTrends")
\* ------------------------------------------------------------------------
\* The Appointments page (client): validation and handlers
\* ------------------------------------------------------------------------
ValidatedFields == {"doctor", "appointmentDate", "appointmentTime", "reason"}

\* Number(text) of a text of decimal digits
RECURSIVE ToNumber(_)
ToNumber(s) ==
    IF s = <<>> THEN 0
    ELSE 10 * ToNumber(SubSeq(s, 1, Len(s) - 1)) + Num(s[Len(s)])

TwoDigits(n) == <<DigitSeq[(n \div 10) + 1], DigitSeq[(n % 10) + 1]>>
\* the value of an <input type="time">: HH:MM
Clock(h, m) == TwoDigits(h) \o <<":">> \o TwoDigits(m)

validateDoctor(doctor) ==
    IF doctor = "" THEN "Doctor selection is required" ELSE ""

\* new Date('YYYY-MM-DD') is midnight UTC of that day; setHours(0, 0, 0, 0)
\* moves it to the local midnight before it, which west of UTC lies on the
\* previous day
LocalDay(d) == IF west THEN d - 1 ELSE d
validateDate(date) ==
    IF date = <<>> THEN ""
    ELSE IF LocalDay(date[1]) <= today THEN "Date must be in the future"
    ELSE ""

\* variant: the closing hour itself refused
validateTime_ClosedAtFive(time) ==
    IF time = <<>> THEN ""
    ELSE LET parts == Split(time, ":")
             hours == ToNumber(parts[1])
             minutes == ToNumber(parts[2])
         IN  IF 60 * hours + minutes < 60 * 9 \/ 60 * hours + minutes >= 60 * 17
             THEN "Time must be during business hours (9 AM - 5 PM)"
             ELSE ""

\* hour = hours + minutes / 60 is compared with 9 and 17; both sides are
\* taken times 60 here to stay within the integers
validateTime(time) ==
    IF time = <<>> THEN ""
    ELSE LET parts == Split(time, ":")
             hours == ToNumber(parts[1])
             minutes == ToNumber(parts[2])
         IN  IF 60 * hours + minutes < 60 * 9 \/ 60 * hours + minutes > 60 * 17
             THEN "Time must be during business hours (9 AM - 5 PM)"
             ELSE ""

validateReason(reason) ==
    IF reason = <<>> \/ Trim(reason) = <<>>
    THEN "Reason field must be at least 10 characters"
    ELSE IF Len(Trim(reason)) < 10
         THEN "Reason field must be at least 10 characters"
         ELSE ""

\* the error validateField computes (and stores in errors) for a field
validateField(name, value) ==
    CASE name = "doctor" -> validateDoctor(value)
      [] name = "appointmentDate" -> validateDate(value)
      [] name = "appointmentTime" -> validateTime(value)
      [] name = "reason" -> validateReason(value)

\* validateForm: the errors it stores, and its result
validateFormErrors(data) == [f \in ValidatedFields |-> validateField(f, data[f])]
validateForm(data) == \A f \in ValidatedFields : validateField(f, data[f]) = ""

\* isFormValid: what the submit button is enabled on
isFormValid(data, errs) ==
    /\ data.doctor # ""
    /\ data.appointmentDate # <<>>
    /\ data.appointmentTime # <<>>
    /\ data.reason # <<>>
    /\ \A f \in ValidatedFields : errs[f] \in {Undefined, ""}

\* what the user can enter
DoctorOptions == {"", "d1"}
DateOptions == {<<>>} \cup {<<d>> : d \in FirstDay..(FirstDay + MaxMidnights + 1)}
TimeOptions == {<<>>, Clock(8, 59), Clock(9, 0), Clock(17, 0), Clock(17, 1)}
sReason == <<"c", "h", "e", "s", "t", " ", "p", "a", "i", "n">>
ReasonOptions == {<<>>, sReason, sSpace \o SubSeq(sReason, 1, 9) \o sSpace}
SymptomOptions == {<<>>, sA}
Options(name) ==
    CASE name = "doctor" -> DoctorOptions
      [] name = "appointmentDate" -> DateOptions
      [] name = "appointmentTime" -> TimeOptions
      [] name = "reason" -> ReasonOptions

Rendered == ~loading
FormShown == Rendered /\ showForm
\* any step that is not one of handleSubmit
OtherStep == Step("other", NoSnapshot, EmptyForm)

\* the "Book Appointment" button of the page: setShowForm(!showForm)
ToggleForm ==
    /\ Rendered
    /\ showForm' = ~showForm
    /\ last' = OtherStep
    /\ UNCHANGED <<formData, errors, showSuccess, loading, fetches, creating,
                   booked, timers, today, west>>

handleChange ==
    /\ FormShown
    /\ \E name \in ValidatedFields :
          \E value \in Options(name) :
              /\ formData' = [formData EXCEPT ![name] = value]
              /\ errors' = [errors EXCEPT ![name] = validateField(name, value)]
    /\ last' = OtherStep
    /\ UNCHANGED <<showForm, showSuccess, loading, fetches, creating,
                   booked, timers, today, west>>

\* onBlur of a field: validateField(name, e.target.value)
Blur ==
    /\ FormShown
    /\ \E name \in ValidatedFields :
          errors' = [errors EXCEPT ![name] = validateField(name, formData[name])]
    /\ last' = OtherStep
    /\ UNCHANGED <<showForm, formData, showSuccess, loading, fetches, creating,
                   booked, timers, today, west>>

\* onChange of the symptoms textarea
SymptomsChange ==
    /\ FormShown
    /\ \E value \in SymptomOptions : formData' = [formData EXCEPT !.symptoms = value]
    /\ last' = OtherStep
    /\ UNCHANGED <<showForm, errors, showSuccess, loading, fetches, creating,
                   booked, timers, today, west>>

handleFormClose ==
    /\ FormShown
    /\ showForm' = FALSE
    /\ errors' = NoErrors
    /\ formData' = EmptyForm
    /\ last' = OtherStep
    /\ UNCHANGED <<showSuccess, loading, fetches, creating, booked, timers, today, west>>

\* handleSubmit up to the await: the form is submitted with its button,
\* which is disabled unless isFormValid(); validateForm stores the four
\* errors; if it passes, appointmentService.create(formData) is called
handleSubmit ==
    /\ FormShown
    /\ isFormValid(formData, errors)
    /\ creating + booked < MaxSubmits
    /\ errors' = validateFormErrors(formData)
    /\ IF validateForm(formData)
       THEN /\ creating' = creating + 1
            /\ last' = Step("create", Snapshot, formData)
       ELSE /\ creating' = creating
            /\ last' = Step("invalid", Snapshot, EmptyForm)
    /\ UNCHANGED <<showForm, formData, showSuccess, loading, fetches,
                   booked, timers, today, west>>

\* handleSubmit after the await, create fulfilled
CreateSucceeds ==
    /\ creating > 0
    /\ creating' = creating - 1
    /\ showForm' = FALSE
    /\ formData' = EmptyForm
    /\ errors' = NoErrors
    /\ showSuccess' = TRUE
    /\ booked' = booked + 1
    /\ timers' = Append(timers, booked + 1)
    /\ fetches' = fetches + 1
    /\ last' = Step("created", Snapshot, EmptyForm)
    /\ UNCHANGED <<loading, today, west>>

\* variant: the form reset in the catch branch as well
CreateFails_Resets ==
    /\ creating > 0
    /\ creating' = creating - 1
    /\ showForm' = FALSE
    /\ formData' = EmptyForm
    /\ errors' = NoErrors
    /\ last' = Step("failed", Snapshot, EmptyForm)
    /\ UNCHANGED <<showSuccess, loading, fetches, booked, timers, today, west>>

\* handleSubmit after the await, create rejected: alert(...)
CreateFails ==
    /\ creating > 0
    /\ creating' = creating - 1
    /\ last' = Step("failed", Snapshot, EmptyForm)
    /\ UNCHANGED <<showForm, formData, errors, showSuccess, loading, fetches,
                   booked, timers, today, west>>

\* a hide timer runs: setShowSuccess(false)
TimerFires ==
    /\ timers # <<>>
    /\ timers' = Tail(timers)
    /\ showSuccess' = FALSE
    /\ last' = OtherStep
    /\ UNCHANGED <<showForm, formData, errors, loading, fetches, creating,
                   booked, today, west>>

\* the fetchAppointments call of the mount effect ends (either way):
\* setLoading(false).  The end of a later call changes the list of
\* appointments only, which is not part of this state.
FetchEnds ==
    /\ loading
    /\ loading' = FALSE
    /\ last' = OtherStep
    /\ UNCHANGED <<showForm, formData, errors, showSuccess, fetches, creating,
                   booked, timers, today, west>>

\* the day ends while the page is open
MidnightPasses ==
    /\ today < FirstDay + MaxMidnights
    /\ today' = today + 1
    /\ last' = OtherStep
    /\ UNCHANGED <<showForm, formData, errors, showSuccess, loading, fetches,
                   creating, booked, timers, west>>

\* the page is opened by a patient; its fetchDoctors request is the
\* server-side request of this specification, which stays as sent
FormInit ==
    /\ request = Request("users", "GET", "/", "patient", "doctor", EmptyBody, "any")
    /\ body = request.body
    /\ pc = "dispatch"
    /\ layer = 1
    /\ hpos = 0
    /\ vpos = [f \in Fields |-> 0]
    /\ vctx = [f \in Fields |-> <<>>]
    /\ contexts = <<>>
    /\ res = [status |-> 0, sends |-> 0, success |-> TRUE, errors |-> <<>>]
    /\ trace = <<>>
    /\ FormMounted
    /\ west \in BOOLEAN

FormNext ==
    \/ ToggleForm /\ UNCHANGED vars
    \/ handleChange /\ UNCHANGED vars
    \/ Blur /\ UNCHANGED vars
    \/ SymptomsChange /\ UNCHANGED vars
    \/ handleFormClose /\ UNCHANGED vars
    \/ handleSubmit /\ UNCHANGED vars
    \/ CreateSucceeds /\ UNCHANGED vars
    \/ CreateFails /\ UNCHANGED vars
    \/ TimerFires /\ UNCHANGED vars
    \/ FetchEnds /\ UNCHANGED vars
    \/ MidnightPasses /\ UNCHANGED vars

SpecForm == FormInit /\ [][FormNext]_allVars
\* ------------------------------------------------------------------------
\* Properties of the Appointments page
\* ------------------------------------------------------------------------
\* C12: handleSubmit after validation has passed: when create succeeds the
\* form is hidden, formData and errors are reset, showSuccess is true and a
\* fetch of the appointments is started; when create fails showForm,
\* formData, errors and showSuccess stay as they were and no fetch is
\* started.  When validation does not pass, create is not called and
\* formData and showForm stay as they were.
C12_SubmitOutcomes ==
    /\ last.kind = "create" =>
          /\ validateForm(last.sent)
          /\ last.sent = last.before.formData
          /\ creating = last.before.creating + 1
    /\ last.kind = "created" =>
          /\ showForm = FALSE
          /\ formData = EmptyForm
          /\ errors = NoErrors
          /\ showSuccess = TRUE
          /\ fetches = last.before.fetches + 1
    /\ last.kind = "failed" =>
          /\ showForm = last.before.showForm
          /\ formData = last.before.formData
          /\ errors = last.before.errors
          /\ showSuccess = last.before.showSuccess
          /\ fetches = last.before.fetches
    /\ last.kind = "invalid" =>
          /\ ~validateForm(last.before.formData)
          /\ creating = last.before.creating
          /\ formData = last.before.formData
          /\ showForm = last.before.showForm
C12_Witness ==
    /\ last.kind = "failed"
    /\ showForm = TRUE
    /\ formData.doctor = "d1"
    /\ formData.reason = sReason
    /\ errors.reason = ""
    /\ showSuccess = TRUE

\* C13: validateTime accepts a non-empty HH:MM time iff it lies within
\* 09:00 to 17:00 inclusive (08:59 and 17:01 are refused, 09:00 and 17:00
\* accepted); it gives the business-hours message for every time it
\* refuses and '' for every time it accepts.
MinuteOfDay(t) == 600 * Num(t[1]) + 60 * Num(t[2]) + 10 * Num(t[4]) + Num(t[5])
C13_BusinessHours ==
    (formData.appointmentTime # <<>> /\ errors.appointmentTime # Undefined) =>
        /\ errors.appointmentTime =
              IF MinuteOfDay(formData.appointmentTime) \in (9 * 60)..(17 * 60)
              THEN ""
              ELSE "Time must be during business hours (9 AM - 5 PM)"
        /\ formData.appointmentTime \in {Clock(8, 59), Clock(17, 1)} => errors.appointmentTime # ""
        /\ formData.appointmentTime \in {Clock(9, 0), Clock(17, 0)} => errors.appointmentTime = ""
C13_Witness ==
    /\ formData.appointmentTime = Clock(17, 0)
    /\ errors.appointmentTime = ""

\* C14: whenever handleSubmit calls create, the formData it sends has
\* doctor, date, time and reason non-empty, a date after today, a time
\* within business hours and a trimmed reason of at least 10 characters;
\* equivalently, validateForm is never true of form data of which
\* isFormValid is false.
Requirements(data) ==
    /\ data.doctor # ""
    /\ data.appointmentDate # <<>>
    /\ data.appointmentTime # <<>>
    /\ data.reason # <<>>
    /\ data.appointmentDate[1] > today
    /\ MinuteOfDay(data.appointmentTime) \in (9 * 60)..(17 * 60)
    /\ TrimmedLength(data.reason) >= 10
C14_CreateOnlyValid == last.kind = "create" => Requirements(last.sent)
C14_SubmitEnforcesButton ==
    /\ C14_CreateOnlyValid
    /\ validateForm(formData) => (Requirements(formData) /\ isFormValid(formData, errors))

\* C15: the banner of a booking is hidden only by the timer that this
\* booking started: while the timer of the latest successful booking is
\* pending, showSuccess is true, whatever earlier timers do.
C15_BannerUntilOwnTimer ==
    (booked > 0 /\ \E i \in DOMAIN timers : timers[i] = booked) => showSuccess = TRUE
====
